---- MODULE Spec2Model ----
(***************************************************************************)
(* Model of the SRT translation pipeline of src/main.py: tag/template      *)
(* extraction, SRT parsing, sentence grouping, batch translation with      *)
(* retry and fallback, and streamed output composition.                    *)
(*                                                                         *)
(* Text is modelled as a sequence of one-character strings.  Two kinds of  *)
(* multi-character literals of the program are single symbols of the       *)
(* model's alphabet: the internal placeholder of                           *)
(* create_template_and_clean_text (PH) and the failure sentinels of        *)
(* api_call_with_retry.                                                    *)
(***************************************************************************)
EXTENDS Integers, Sequences, FiniteSets, TLC

(***************************************************************************)
(* Bounds of the model                                                     *)
(***************************************************************************)
MaxLineLen == 4

(***************************************************************************)
(* Characters                                                              *)
(***************************************************************************)
\* "___TRANSLATION_PLACEHOLDER___", one symbol
PH == "___TRANSLATION_PLACEHOLDER___"

Whitespace == {" "}
LowerChars == {"a", "b"}
\* the placeholder literal is upper-case letters and underscores
UpperChars == {"A", "X", "Y", "Z", PH}
DigitChars == {"0", "1", "2", "3", "4", "5", "6", "7", "8", "9"}

(***************************************************************************)
(* str helpers                                                              *)
(***************************************************************************)
RECURSIVE LStrip(_)
LStrip(s) ==
    IF s = <<>> THEN <<>>
    ELSE IF Head(s) \in Whitespace THEN LStrip(Tail(s)) ELSE s

RECURSIVE RStrip(_)
RStrip(s) ==
    IF s = <<>> THEN <<>>
    ELSE IF s[Len(s)] \in Whitespace THEN RStrip(SubSeq(s, 1, Len(s) - 1)) ELSE s

\* str.strip()
Strip(s) == RStrip(LStrip(s))

\* first position >= from holding character c, 0 when there is none
RECURSIVE IndexOfFrom(_, _, _)
IndexOfFrom(s, c, from) ==
    IF from > Len(s) THEN 0
    ELSE IF s[from] = c THEN from
    ELSE IndexOfFrom(s, c, from + 1)

\* str.find, 1-based; 0 when sub does not occur in s
RECURSIVE FindFrom(_, _, _)
FindFrom(s, sub, from) ==
    IF from + Len(sub) - 1 > Len(s) THEN 0
    ELSE IF SubSeq(s, from, from + Len(sub) - 1) = sub THEN from
    ELSE FindFrom(s, sub, from + 1)

Find(s, sub) == FindFrom(s, sub, 1)

\* re.sub(re.escape(sub), rep, s, 1) / s.replace(sub, rep, 1)
ReplaceFirst(s, sub, rep) ==
    LET p == Find(s, sub)
    IN  IF p = 0 THEN s
        ELSE SubSeq(s, 1, p - 1) \o rep \o SubSeq(s, p + Len(sub), Len(s))

\* s.replace(c, rep) for a single symbol c
RECURSIVE ReplaceAll(_, _, _)
ReplaceAll(s, c, rep) ==
    IF s = <<>> THEN <<>>
    ELSE (IF Head(s) = c THEN rep ELSE <<Head(s)>>) \o ReplaceAll(Tail(s), c, rep)

\* template.replace('{', '{{').replace('}', '}}')
EscapeBraces(s) == ReplaceAll(ReplaceAll(s, "{", <<"{", "{">>), "}", <<"}", "}">>)

\* " ".join(parts)
RECURSIVE JoinWith(_, _)
JoinWith(parts, sep) ==
    IF parts = <<>> THEN <<>>
    ELSE IF Len(parts) = 1 THEN parts[1]
    ELSE parts[1] \o sep \o JoinWith(Tail(parts), sep)

(***************************************************************************)
(* strip_tags: re.sub(r'\{.*?\}|<.*?>', '', text).strip()                  *)
(***************************************************************************)
\* the positions of s, from i on, that lie in a match of the tag pattern:
\* at a "{" the shortest run up to the next "}", else at a "<" the shortest
\* run up to the next ">"; matches are taken left to right and do not overlap
RECURSIVE TagPositions(_, _)
TagPositions(s, i) ==
    IF i > Len(s) THEN {}
    ELSE LET closeBrace == IF s[i] = "{" THEN IndexOfFrom(s, "}", i + 1) ELSE 0
             closeAngle == IF s[i] = "<" THEN IndexOfFrom(s, ">", i + 1) ELSE 0
         IN  IF closeBrace # 0 THEN (i .. closeBrace) \cup TagPositions(s, closeBrace + 1)
             ELSE IF closeAngle # 0 THEN (i .. closeAngle) \cup TagPositions(s, closeAngle + 1)
             ELSE TagPositions(s, i + 1)

\* s without the characters at the positions in drop
RECURSIVE DropPositions(_, _, _)
DropPositions(s, drop, i) ==
    IF i > Len(s) THEN <<>>
    ELSE (IF i \in drop THEN <<>> ELSE <<s[i]>>) \o DropPositions(s, drop, i + 1)

RemoveTags(s) == DropPositions(s, TagPositions(s, 1), 1)

strip_tags(text) == Strip(RemoveTags(text))

(***************************************************************************)
(* create_template_and_clean_text                                          *)
(***************************************************************************)
create_template_and_clean_text(original_line) ==
    LET clean_text == strip_tags(original_line)
        substituted == ReplaceFirst(original_line, clean_text, <<PH>>)
    IN  [clean |-> clean_text,
         template |->
            IF clean_text # <<>>
            THEN ReplaceAll(EscapeBraces(substituted), PH, <<"{", "}">>)
            ELSE EscapeBraces(original_line)]

(***************************************************************************)
(* str.format with one positional argument.  "{{" and "}}" are literal     *)
(* braces, "{}" is the next automatic field; a second field has no         *)
(* argument (IndexError), a lone brace is a ValueError.                    *)
(***************************************************************************)
RECURSIVE FormatFrom(_, _, _, _)
FormatFrom(tpl, arg, i, used) ==
    IF i > Len(tpl) THEN [ok |-> TRUE, text |-> <<>>]
    ELSE IF tpl[i] \in {"{", "}"}
    THEN IF i < Len(tpl) /\ tpl[i + 1] = tpl[i]
         THEN LET rest == FormatFrom(tpl, arg, i + 2, used)
              IN  [ok |-> rest.ok, text |-> <<tpl[i]>> \o rest.text]
         ELSE IF tpl[i] = "{" /\ i < Len(tpl) /\ tpl[i + 1] = "}" /\ ~used
         THEN LET rest == FormatFrom(tpl, arg, i + 2, TRUE)
              IN  [ok |-> rest.ok, text |-> arg \o rest.text]
         ELSE [ok |-> FALSE, text |-> <<>>]
    ELSE LET rest == FormatFrom(tpl, arg, i + 1, used)
         IN  [ok |-> rest.ok, text |-> <<tpl[i]>> \o rest.text]

Format(tpl, arg) == FormatFrom(tpl, arg, 1, FALSE)


(***************************************************************************)
(* parse_srt                                                               *)
(***************************************************************************)
Arrow == <<"-", "-", ">">>

\* characters for which str.isdigit() is true: the decimal digits and
\* digit-like characters such as a superscript two, which int() rejects
DigitLikeChars == DigitChars \cup {"^2"}

\* s.isdigit()
IsDigit(s) == s # <<>> /\ \A k \in 1 .. Len(s) : s[k] \in DigitLikeChars

\* int(s) raises ValueError
IntRaises(s) == \E k \in 1 .. Len(s) : s[k] \notin DigitChars

DigitValue(c) ==
    CASE c = "0" -> 0 [] c = "1" -> 1 [] c = "2" -> 2 [] c = "3" -> 3
      [] c = "4" -> 4 [] c = "5" -> 5 [] c = "6" -> 6 [] c = "7" -> 7
      [] c = "8" -> 8 [] c = "9" -> 9

\* int(s) for a string of decimal digits
RECURSIVE ToInt(_)
ToInt(s) ==
    IF s = <<>> THEN 0
    ELSE 10 * ToInt(SubSeq(s, 1, Len(s) - 1)) + DigitValue(s[Len(s)])

IsBlank(line) == Strip(line) = <<>>

RECURSIVE DropLeadingBlank(_)
DropLeadingBlank(ls) ==
    IF ls = <<>> THEN <<>>
    ELSE IF IsBlank(Head(ls)) THEN DropLeadingBlank(Tail(ls)) ELSE ls

RECURSIVE DropTrailingBlank(_)
DropTrailingBlank(ls) ==
    IF ls = <<>> THEN <<>>
    ELSE IF IsBlank(ls[Len(ls)]) THEN DropTrailingBlank(SubSeq(ls, 1, Len(ls) - 1)) ELSE ls

\* srt_content.strip().split("\n"), the content given as its lines: leading
\* and trailing blank lines go, the first line loses its leading and the last
\* its trailing whitespace; an all-blank content is the single line ""
StripSplit(content) ==
    LET kept == DropTrailingBlank(DropLeadingBlank(content))
        n == Len(kept)
    IN  IF n = 0 THEN << <<>> >>
        ELSE [k \in 1 .. n |->
                LET l1 == IF k = 1 THEN LStrip(kept[k]) ELSE kept[k]
                IN  IF k = n THEN RStrip(l1) ELSE l1]

\* the first 0-based position >= k that is past the end or holds a blank line
RECURSIVE TextEnd(_, _)
TextEnd(lines, k) ==
    IF k >= Len(lines) THEN k
    ELSE IF IsBlank(lines[k + 1]) THEN k
    ELSE TextEnd(lines, k + 1)

\* the loop at main.py:198-201 over text_lines_raw
processed_lines(text_lines_raw) ==
    LET kept == SelectSeq(text_lines_raw, LAMBDA raw_line : ~IsBlank(raw_line))
    IN  [k \in 1 .. Len(kept) |-> create_template_and_clean_text(kept[k])]

\* (a slip: the line after the index line is consumed as well)
ResumeSkippingNextLine(i) == i + 1

\* where scanning resumes after an index line whose next line lacks "-->":
\* `continue` with i already on that next line
ResumeAfterMissingRange(i) == i

\* One iteration of the while loop of parse_srt at 0-based position i < len(lines).
\* branch names the path taken through the body.
ParseIter(lines, i, subs) ==
    LET head == Strip(lines[i + 1])
    IN  IF ~IsDigit(head)
        THEN [branch |-> "skip_line", i |-> i + 1, subtitles |-> subs]
        ELSE IF IntRaises(head)
        THEN [branch |-> "value_error", i |-> i + 1, subtitles |-> subs]
        ELSE IF i + 1 >= Len(lines)
        THEN [branch |-> "break", i |-> i + 1, subtitles |-> subs]
        ELSE IF Find(lines[i + 2], Arrow) = 0
        THEN [branch |-> "missing_range", i |-> ResumeAfterMissingRange(i + 1),
              subtitles |-> subs]
        ELSE LET stop == TextEnd(lines, i + 2)
                 done == processed_lines(SubSeq(lines, i + 3, stop))
                 sub == [index |-> ToInt(head), time |-> lines[i + 2], lines |-> done]
             IN  [branch |-> "block", i |-> stop + 1,
                  subtitles |-> IF done # <<>> THEN Append(subs, sub) ELSE subs]

RECURSIVE ParseLoop(_, _, _)
ParseLoop(lines, i, subs) ==
    IF i >= Len(lines) THEN subs
    ELSE LET r == ParseIter(lines, i, subs)
         IN  IF r.branch = "break" THEN r.subtitles
             ELSE ParseLoop(lines, r.i, r.subtitles)

parse_srt(srt_content) == ParseLoop(StripSplit(srt_content), 0, <<>>)

\* the lines of a file given as its blocks
RECURSIVE Flatten(_)
Flatten(seqs) ==
    IF seqs = <<>> THEN <<>> ELSE Head(seqs) \o Flatten(Tail(seqs))

(***************************************************************************)
(* group_subtitles_by_sentence                                             *)
(***************************************************************************)
\* ('.', '?', '!', '."', '."', full-width '?', '!', and the ideographic stop)
sentence_enders ==
    { <<".">>, <<"?">>, <<"!">>, <<".", "\"">>, <<"U+FF1F">>, <<"U+FF01">>, <<"U+3002">> }

\* s.endswith(suffixes)
EndsWith(s, suffixes) ==
    \E suf \in suffixes :
        Len(suf) <= Len(s) /\ SubSeq(s, Len(s) - Len(suf) + 1, Len(s)) = suf

\* s.isupper(): some cased character, and no lower-case one
IsUpper(s) ==
    /\ \E k \in 1 .. Len(s) : s[k] \in UpperChars
    /\ \A k \in 1 .. Len(s) : s[k] \notin LowerChars

\* " ".join([line['clean'] for line in sub['lines']])
JoinedClean(sub) == JoinWith([k \in 1 .. Len(sub.lines) |-> sub.lines[k].clean], <<" ">>)

\* the size at which an open group is closed whatever its text
MaxGroupLen == 5

\* (a slip: the size of the open group is not looked at)
ClosesGroupIgnoringSize(sub, current_group) ==
    LET full_clean_text == Strip(JoinedClean(sub))
    IN  \/ EndsWith(full_clean_text, sentence_enders)
        \/ (IsUpper(full_clean_text) /\ full_clean_text # <<>>)

\* the condition at main.py:232-234, current_group already holding sub
ClosesGroup(sub, current_group) ==
    LET full_clean_text == Strip(JoinedClean(sub))
    IN  \/ EndsWith(full_clean_text, sentence_enders)
        \/ (IsUpper(full_clean_text) /\ full_clean_text # <<>>)
        \/ Len(current_group) >= MaxGroupLen

\* (a slip: the entry that closes a group also opens the next one)
GroupIterKeepingCloser(sub, groups, current_group) ==
    LET grown == Append(current_group, sub)
    IN  IF ClosesGroup(sub, grown)
        THEN [closed |-> TRUE, groups |-> Append(groups, grown), current_group |-> <<sub>>]
        ELSE [closed |-> FALSE, groups |-> groups, current_group |-> grown]

\* one iteration of the for loop
GroupIter(sub, groups, current_group) ==
    LET grown == Append(current_group, sub)
    IN  IF ClosesGroup(sub, grown)
        THEN [closed |-> TRUE, groups |-> Append(groups, grown), current_group |-> <<>>]
        ELSE [closed |-> FALSE, groups |-> groups, current_group |-> grown]

\* (a slip: the open group left at the end of the input is forgotten)
GroupFinishDroppingOpen(groups, current_group) == groups

\* if current_group: groups.append(current_group)
GroupFinish(groups, current_group) ==
    IF current_group # <<>> THEN Append(groups, current_group) ELSE groups

RECURSIVE GroupLoop(_, _, _, _)
GroupLoop(subtitles, k, groups, current_group) ==
    IF k > Len(subtitles) THEN GroupFinish(groups, current_group)
    ELSE LET r == GroupIter(subtitles[k], groups, current_group)
         IN  GroupLoop(subtitles, k + 1, r.groups, r.current_group)

group_subtitles_by_sentence(subtitles) ==
    IF subtitles = <<>> THEN <<>> ELSE GroupLoop(subtitles, 1, <<>>, <<>>)

(***************************************************************************)
(* split_long_line                                                         *)
(***************************************************************************)
\* text.split(): the maximal runs of non-whitespace characters
RECURSIVE SplitWords(_, _)
SplitWords(text, word) ==
    IF text = <<>> THEN (IF word = <<>> THEN <<>> ELSE <<word>>)
    ELSE IF Head(text) \in Whitespace
    THEN (IF word = <<>> THEN <<>> ELSE <<word>>) \o SplitWords(Tail(text), <<>>)
    ELSE SplitWords(Tail(text), Append(word, Head(text)))

\* the for loop of split_long_line and the final append
RECURSIVE WrapWords(_, _, _)
WrapWords(words, current_line, max_length) ==
    IF words = <<>>
    THEN (IF current_line # <<>> THEN <<Strip(current_line)>> ELSE <<>>)
    ELSE LET word == Head(words)
         IN  IF Len(current_line \o word) <= max_length
             THEN WrapWords(Tail(words), current_line \o word \o <<" ">>, max_length)
             ELSE (IF current_line # <<>> THEN <<Strip(current_line)>> ELSE <<>>)
                      \o WrapWords(Tail(words), word \o <<" ">>, max_length)

split_long_line(text, max_length) ==
    IF Len(text) <= max_length THEN <<text>>
    ELSE WrapWords(SplitWords(text, <<>>), <<>>, max_length)

(***************************************************************************)
(* dict                                                                    *)
(***************************************************************************)
EmptyDict == <<>>

\* d[k] = v
DictSet(d, k, v) == [x \in DOMAIN d \cup {k} |-> IF x = k THEN v ELSE d[x]]

\* d.get(k, default)
DictGet(d, k, default) == IF k \in DOMAIN d THEN d[k] ELSE default

(***************************************************************************)
(* translate_batch_of_groups_and_parse                                     *)
(***************************************************************************)
\* the values api_call_with_retry returns instead of a response text
API_CALL_FAILED == << <<"API_CALL_FAILED">> >>
API_CONFIGURATION_ERROR == << <<"API_CONFIGURATION_ERROR">> >>
SAFETY_BLOCK == << <<"SAFETY_BLOCK">> >>
EMPTY_RESPONSE == << <<"EMPTY_RESPONSE">> >>

FailureValues == {API_CALL_FAILED, API_CONFIGURATION_ERROR, SAFETY_BLOCK, EMPTY_RESPONSE}

\* the loops at main.py:336-342: index -> space-joined clean text, a later
\* entry with the same index replacing an earlier one
RECURSIVE BuildOriginalTextMap(_, _)
BuildOriginalTextMap(entries, map) ==
    IF entries = <<>> THEN map
    ELSE BuildOriginalTextMap(Tail(entries),
                              DictSet(map, Head(entries).index, JoinedClean(Head(entries))))

\* the end of the run of decimal digits of s that starts at position k
RECURSIVE DigitsEnd(_, _)
DigitsEnd(s, k) ==
    IF k <= Len(s) /\ s[k] \in DigitChars THEN DigitsEnd(s, k + 1) ELSE k - 1

\* pattern.match(line) for r'\[(\d+)\]\s*(.*)' on a stripped line, with
\* group 1 as int and group 2 stripped
MatchIndexedLine(line) ==
    LET last == DigitsEnd(line, 2)
    IN  IF /\ Len(line) >= 3
           /\ line[1] = "["
           /\ last >= 2
           /\ last < Len(line)
           /\ line[last + 1] = "]"
        THEN [matched |-> TRUE,
              index |-> ToInt(SubSeq(line, 2, last)),
              translation |-> Strip(SubSeq(line, last + 2, Len(line)))]
        ELSE [matched |-> FALSE, index |-> 0, translation |-> <<>>]

\* the loop at main.py:360-370 over response_text.split('\n')
RECURSIVE ParseResponseLines(_, _)
ParseResponseLines(lines, map) ==
    IF lines = <<>> THEN map
    ELSE LET m == MatchIndexedLine(Strip(Head(lines)))
         IN  ParseResponseLines(Tail(lines),
                 IF m.matched /\ m.translation # <<>>
                 THEN DictSet(map, m.index, m.translation)
                 ELSE map)

\* (a slip: indices missing from the response are left out of the map)
FillMissingSkipped(entries, map, original_text_map) == map

\* the loops at main.py:373-377
RECURSIVE FillMissing(_, _, _)
FillMissing(entries, map, original_text_map) ==
    IF entries = <<>> THEN map
    ELSE LET index == Head(entries).index
         IN  FillMissing(Tail(entries),
                 IF index \in DOMAIN map THEN map
                 ELSE DictSet(map, index, DictGet(original_text_map, index, <<>>)),
                 original_text_map)

\* what translate_batch_of_groups_and_parse returns once api_call_with_retry
\* has returned response_text
BatchResult(batch_of_groups, response_text) ==
    LET entries == Flatten(batch_of_groups)
        original_text_map == BuildOriginalTextMap(entries, EmptyDict)
    IN  IF response_text \in FailureValues THEN original_text_map
        ELSE FillMissing(entries, ParseResponseLines(response_text, EmptyDict),
                         original_text_map)

(***************************************************************************)
(* translate_srt_stream: one output chunk                                  *)
(***************************************************************************)
DigitChar(d) ==
    CASE d = 0 -> "0" [] d = 1 -> "1" [] d = 2 -> "2" [] d = 3 -> "3" [] d = 4 -> "4"
      [] d = 5 -> "5" [] d = 6 -> "6" [] d = 7 -> "7" [] d = 8 -> "8" [] d = 9 -> "9"

\* str(n) for n >= 0
RECURSIVE IntToStr(_)
IntToStr(n) ==
    IF n < 10 THEN <<DigitChar(n)>> ELSE IntToStr(n \div 10) \o <<DigitChar(n % 10)>>

NL == "\n"

\* f'<font size="{font_size}">{line}</font>', the two tags as single symbols
FontWrap(line, font_size) ==
    <<"<font size=\"">> \o IntToStr(font_size) \o <<"\">">> \o line \o <<"</font>">>

\* main.py:423-451 for one entry.  ok is FALSE when a str.format call raises.
OutputChunk(sub, translation_map, display_mode, font_size, split_long_lines, max_line_length) ==
    LET looked_up == Strip(ReplaceAll(DictGet(translation_map, sub.index, <<>>), NL, <<" ">>))
        translated_text ==
            IF split_long_lines /\ Len(looked_up) > max_line_length
            THEN JoinWith(split_long_line(looked_up, max_line_length), <<NL>>)
            ELSE looked_up
        formatted == [k \in 1 .. Len(sub.lines) |->
                        Format(sub.lines[k].template, sub.lines[k].clean)]
        original_text_lines ==
            [k \in 1 .. Len(sub.lines) |->
                IF font_size # 0 /\ display_mode # "only_translated"
                THEN FontWrap(formatted[k].text, font_size)
                ELSE formatted[k].text]
        original_text == JoinWith(original_text_lines, <<NL>>)
        first_line_template == IF sub.lines # <<>> THEN sub.lines[1].template ELSE <<"{", "}">>
        final == IF translated_text # <<>>
                 THEN Format(first_line_template, translated_text)
                 ELSE [ok |-> TRUE, text |-> <<>>]
        header == IntToStr(sub.index) \o <<NL>> \o sub.time \o <<NL>>
    IN  [ok |-> final.ok /\ \A k \in 1 .. Len(sub.lines) : formatted[k].ok,
         chunk |->
            IF display_mode = "only_translated"
            THEN header \o final.text \o <<NL, NL>>
            ELSE IF display_mode = "original_above_translated"
            THEN header \o original_text \o <<NL>> \o final.text \o <<NL, NL>>
            ELSE IF display_mode = "translated_above_original"
            THEN header \o final.text \o <<NL>> \o original_text \o <<NL, NL>>
            ELSE header]

(***************************************************************************)
(* translate_srt_stream and api_call_with_retry: constants and helpers     *)
(***************************************************************************)
GROUP_BATCH_SIZE == 20
MAX_RETRIES == 3
RATE_LIMIT_DELAY == 5
\* await asyncio.sleep(2)
FIXED_RETRY_DELAY == 2

\* (a slip: a retry does not use up an attempt)
NextAttemptStuck(attempt) == attempt

\* for attempt in range(MAX_RETRIES): the attempt after this one
NextAttempt(attempt) == attempt + 1

\* (a slip: the rate-limit delay does not grow with the attempt)
RateLimitDelayFlat(attempt) == RATE_LIMIT_DELAY

\* delay = RATE_LIMIT_DELAY * (2 ** attempt)
RateLimitDelay(attempt) == RATE_LIMIT_DELAY * (2 ^ attempt)

\* (a slip: the batch loop steps one group short of a batch)
NextBatchStartOverlapping(i) == i + GROUP_BATCH_SIZE - 1

\* range(0, total_groups, GROUP_BATCH_SIZE): the start of the batch after i
NextBatchStart(i) == i + GROUP_BATCH_SIZE

\* (a slip: the slice takes one group more than GROUP_BATCH_SIZE)
BatchSliceOneMore(subtitle_groups, i) ==
    SubSeq(subtitle_groups, i + 1,
           IF i + GROUP_BATCH_SIZE + 1 <= Len(subtitle_groups)
           THEN i + GROUP_BATCH_SIZE + 1 ELSE Len(subtitle_groups))

\* subtitle_groups[i:i + GROUP_BATCH_SIZE]
BatchSlice(subtitle_groups, i) ==
    SubSeq(subtitle_groups, i + 1,
           IF i + GROUP_BATCH_SIZE <= Len(subtitle_groups)
           THEN i + GROUP_BATCH_SIZE ELSE Len(subtitle_groups))

\* the status chunks, each starting with the symbol "[STATUS]"
StatusUnparseable == <<"[STATUS]", "cannot parse the SRT file">>
StatusStart(total_groups) == <<"[STATUS]", "translation started, groups: ">> \o IntToStr(total_groups)
StatusBatch(i, total_groups, start_index, end_index) ==
    <<"[STATUS]", "translating batch ">> \o IntToStr(i \div GROUP_BATCH_SIZE + 1)
        \o <<"/">> \o IntToStr((total_groups + GROUP_BATCH_SIZE - 1) \div GROUP_BATCH_SIZE)
        \o <<" subtitles ">> \o IntToStr(start_index) \o <<"-">> \o IntToStr(end_index)
StatusComplete == <<"[STATUS]", "translation complete">>
StatusFailed == <<"[STATUS]", "translation failed">>

\* chunk.startswith("[STATUS]")
IsStatus(chunk) == chunk # <<>> /\ chunk[1] = "[STATUS]"

\* response.text is falsy
EmptyText == << <<>> >>

(***************************************************************************)
(* State                                                                   *)
(***************************************************************************)
VARIABLES
    \* a single line through the Tag-Template Extractor and back
    original_line,     \* the raw line given to create_template_and_clean_text
    replacement,       \* the translated text rehydrated into its template
    extracted,         \* the {"clean", "template"} pair returned
    restored,          \* template.format(clean), main.py:431
    rehydrated,        \* template.format(translated_text), main.py:441
    tpc,               \* position: "extract", "format", "done"
    \* one call of parse_srt
    srt_blocks,        \* the file as written: a sequence of blocks of lines
    p_lines,           \* parse_srt.lines
    p_i,               \* parse_srt.i (0-based)
    p_subtitles,       \* parse_srt.subtitles
    p_iterations,      \* iterations of the while loop so far
    ppc,               \* position: "enter", "loop", "returned"
    \* one call of group_subtitles_by_sentence
    g_subtitles,       \* the entries given
    g_next,            \* the 1-based position of the for loop
    groups,            \* group_subtitles_by_sentence.groups
    current_group,     \* group_subtitles_by_sentence.current_group
    gpc,               \* position: "enter", "loop", "returned"
    \* one run of translate_srt_stream
    srt_content,       \* the lines of the uploaded file
    params,            \* display_mode, font_size, split_long_lines, max_line_length
    model_configured,  \* whether the module-level model is set (not None)
    original_subtitles,
    subtitle_groups,
    batch_i,           \* the loop variable i of the batch loop
    batch_of_groups,
    attempt,           \* api_call_with_retry.attempt
    api_calls,         \* generate_content_async calls made for this batch
    sleeps,            \* the delays slept for this batch, in order
    call_errors,       \* what str(e) held for each exception of this batch's calls, in order
    response_text,     \* what api_call_with_retry returned
    translation_map,
    emit_next,         \* position in the batch of the next entry to emit
    chunks,            \* everything yielded so far
    batch_log,         \* per finished translation call: its first group and result
    rpc,               \* position in the run
    \* one call of split_long_line
    w_text,            \* split_long_line.text
    w_max_length,      \* split_long_line.max_length
    w_lines,           \* the list returned
    wpc,               \* position: "call", "returned"
    \* one request to /translate or /translate-stream
    request,           \* the path and the query parameters of the request, and the file
    http_status,       \* the status of the response, 0 while there is none
    translated_srt,    \* the "translated_srt" of the JSON response of /translate
    raised,            \* the exception raised inside the endpoint's try, "" if none
    epc                \* position in the endpoint

tvars == <<original_line, replacement, extracted, restored, rehydrated, tpc>>
pvars == <<srt_blocks, p_lines, p_i, p_subtitles, p_iterations, ppc>>

gvars == <<g_subtitles, g_next, groups, current_group, gpc>>

rvars == <<srt_content, params, model_configured, original_subtitles, subtitle_groups,
           batch_i, batch_of_groups, attempt, api_calls, sleeps, call_errors,
                response_text,
           translation_map, emit_next, chunks, batch_log, rpc>>

wvars == <<w_text, w_max_length, w_lines, wpc>>

evars == <<request, http_status, translated_srt, raised, epc>>

vars == <<tvars, pvars, gvars, rvars, wvars, evars>>

NoPair == [clean |-> <<>>, template |-> <<>>]
NoText == [ok |-> TRUE, text |-> <<>>]

(***************************************************************************)
(* Inputs of the extractor: every line over LineChars up to MaxLineLen     *)
(***************************************************************************)
LineChars == {"a", "b", " ", "{", "}", "<", ">", PH}

RECURSIVE StringsUpTo(_, _)
StringsUpTo(chars, n) ==
    IF n = 0 THEN {<<>>}
    ELSE LET shorter == StringsUpTo(chars, n - 1)
         IN  shorter \cup {Append(s, c) : s \in shorter, c \in chars}

Replacements == {<<"X">>, <<"Y", " ", "Z">>}

TemplateIdle ==
    /\ original_line = <<>>
    /\ replacement = <<>>
    /\ extracted = NoPair
    /\ restored = NoText
    /\ rehydrated = NoText
    /\ tpc = "idle"

ParseIdle ==
    /\ srt_blocks = <<>>
    /\ p_lines = <<>>
    /\ p_i = 0
    /\ p_subtitles = <<>>
    /\ p_iterations = 0
    /\ ppc = "idle"

GroupIdle ==
    /\ g_subtitles = <<>>
    /\ g_next = 0
    /\ groups = <<>>
    /\ current_group = <<>>
    /\ gpc = "idle"

NoParams ==
    [display_mode |-> "", font_size |-> 0, split_long_lines |-> FALSE, max_line_length |-> 0]

RunIdle ==
    /\ srt_content = <<>>
    /\ params = NoParams
    /\ model_configured = FALSE
    /\ original_subtitles = <<>>
    /\ subtitle_groups = <<>>
    /\ batch_i = 0
    /\ batch_of_groups = <<>>
    /\ attempt = 0
    /\ api_calls = 0
    /\ sleeps = <<>>
    /\ call_errors = <<>>
    /\ response_text = <<>>
    /\ translation_map = EmptyDict
    /\ emit_next = 0
    /\ chunks = <<>>
    /\ batch_log = <<>>
    /\ rpc = "idle"

WrapIdle ==
    /\ w_text = <<>>
    /\ w_max_length = 0
    /\ w_lines = <<>>
    /\ wpc = "idle"

NoRequest ==
    [path |-> "", target_language |-> "", quality_mode |-> "", contents |-> <<>>,
     params |-> NoParams]

EndpointIdle ==
    /\ request = NoRequest
    /\ http_status = 0
    /\ translated_srt = <<>>
    /\ raised = ""
    /\ epc = "idle"

InitTemplate ==
    /\ ParseIdle
    /\ GroupIdle
    /\ WrapIdle
    /\ EndpointIdle
    /\ RunIdle
    /\ original_line \in StringsUpTo(LineChars, MaxLineLen)
    /\ replacement \in Replacements
    /\ extracted = NoPair
    /\ restored = NoText
    /\ rehydrated = NoText
    /\ tpc = "extract"

\* parse_srt's call of create_template_and_clean_text on one raw line
Extract ==
    /\ tpc = "extract"
    /\ extracted' = create_template_and_clean_text(original_line)
    /\ tpc' = "format"
    /\ UNCHANGED <<original_line, replacement, restored, rehydrated, pvars, gvars, rvars, wvars, evars>>

\* translate_srt_stream's two uses of the template
Rehydrate ==
    /\ tpc = "format"
    /\ restored' = Format(extracted.template, extracted.clean)
    /\ rehydrated' = Format(extracted.template, replacement)
    /\ tpc' = "done"
    /\ UNCHANGED <<original_line, replacement, extracted, pvars, gvars, rvars, wvars, evars>>

NextTemplate == Extract \/ Rehydrate

SpecTemplate == InitTemplate /\ [][NextTemplate]_vars

(***************************************************************************)
(* parse_srt, one loop iteration per step                                  *)
(***************************************************************************)
MaxBlocks == 3

T1 == <<"0", "1", "-", "-", ">", "0", "2">>

\* the blocks a file is made of: well-formed ones, ones whose index line is
\* not followed by a time-range line, and other fragments
BlockVocab ==
    { << <<"1">>, T1, <<"a">>, <<>> >>,
      << <<"2">>, T1, <<"a", ".">>, <<"b">>, <<>> >>,
      << <<"3">>, T1, <<"{", "a", "}">>, <<>> >>,
      << <<"0", "1">>, Arrow, <<"<", "a", ">", "a">>, <<" ">> >>,
      << <<"2">>, <<"a">>, <<>> >>,
      << <<"2">> >>,
      << <<"2">>, <<"7">>, T1, <<"a">>, <<>> >>,
      << <<"2">>, <<>> >>,
      << <<"^2">>, T1, <<"a">>, <<>> >>,
      << <<"1">>, T1 >>,
      << <<"a">> >>,
      << <<>> >>,
      << <<" ">>, <<"1">>, T1, <<>> >> }

RECURSIVE SeqsUpTo(_, _)
SeqsUpTo(S, n) ==
    IF n = 0 THEN {<<>>}
    ELSE LET shorter == SeqsUpTo(S, n - 1)
         IN  shorter \cup {Append(q, x) : q \in shorter, x \in S}

InitParse ==
    /\ TemplateIdle
    /\ GroupIdle
    /\ WrapIdle
    /\ EndpointIdle
    /\ RunIdle
    /\ srt_blocks \in SeqsUpTo(BlockVocab, MaxBlocks)
    /\ p_lines = <<>>
    /\ p_i = 0
    /\ p_subtitles = <<>>
    /\ p_iterations = 0
    /\ ppc = "enter"

\* lines = srt_content.strip().split("\n"); subtitles = []; i = 0
ParseEnter ==
    /\ ppc = "enter"
    /\ p_lines' = StripSplit(Flatten(srt_blocks))
    /\ p_i' = 0
    /\ p_subtitles' = <<>>
    /\ ppc' = "loop"
    /\ UNCHANGED <<srt_blocks, p_iterations, tvars, gvars, rvars, wvars, evars>>

\* one iteration of the while loop taking the given path
ParseIteration(branch) ==
    /\ ppc = "loop"
    /\ p_i < Len(p_lines)
    /\ LET r == ParseIter(p_lines, p_i, p_subtitles)
       IN  /\ r.branch = branch
           /\ p_i' = r.i
           /\ p_subtitles' = r.subtitles
           /\ ppc' = IF branch = "break" THEN "returned" ELSE "loop"
    /\ p_iterations' = p_iterations + 1
    /\ UNCHANGED <<srt_blocks, p_lines, tvars, gvars, rvars, wvars, evars>>

ParseSkipLine == ParseIteration("skip_line")
ParseValueError == ParseIteration("value_error")
ParseBreak == ParseIteration("break")
ParseMissingRange == ParseIteration("missing_range")
ParseBlock == ParseIteration("block")

\* the loop condition fails: return subtitles
ParseReturn ==
    /\ ppc = "loop"
    /\ p_i >= Len(p_lines)
    /\ ppc' = "returned"
    /\ UNCHANGED <<srt_blocks, p_lines, p_i, p_subtitles, p_iterations, tvars, gvars, rvars, wvars, evars>>

NextParse ==
    \/ ParseEnter
    \/ ParseSkipLine
    \/ ParseValueError
    \/ ParseBreak
    \/ ParseMissingRange
    \/ ParseBlock
    \/ ParseReturn

SpecParse == InitParse /\ [][NextParse]_vars

(***************************************************************************)
(* group_subtitles_by_sentence, one loop iteration per step                *)
(***************************************************************************)
MaxEntries == 6

\* the text lines an entry may have
EntryTexts ==
    { << <<"a">> >>,
      << <<"a", ".">> >>,
      << <<"A">> >>,
      << <<"a", ".">>, <<"{", "a", "}">> >> }

\* the entry parse_srt returns for a block with the given index and text
EntryOf(index, text) ==
    [index |-> index, time |-> T1, lines |-> processed_lines(text)]

\* entry sequences as parse_srt returns them for files numbered 1, 2, ...
InitGroup ==
    /\ TemplateIdle
    /\ ParseIdle
    /\ RunIdle
    /\ WrapIdle
    /\ EndpointIdle
    /\ \E texts \in SeqsUpTo(EntryTexts, MaxEntries) :
          g_subtitles = [k \in 1 .. Len(texts) |-> EntryOf(k, texts[k])]
    /\ g_next = 0
    /\ groups = <<>>
    /\ current_group = <<>>
    /\ gpc = "enter"

\* if not subtitles: return []
GroupReturnEmpty ==
    /\ gpc = "enter"
    /\ g_subtitles = <<>>
    /\ gpc' = "returned"
    /\ UNCHANGED <<g_subtitles, g_next, groups, current_group, tvars, pvars, rvars, wvars, evars>>

\* groups = []; current_group = []
GroupEnter ==
    /\ gpc = "enter"
    /\ g_subtitles # <<>>
    /\ g_next' = 1
    /\ groups' = <<>>
    /\ current_group' = <<>>
    /\ gpc' = "loop"
    /\ UNCHANGED <<g_subtitles, tvars, pvars, rvars, wvars, evars>>

\* one iteration that leaves the group open
GroupAppend ==
    /\ gpc = "loop"
    /\ g_next <= Len(g_subtitles)
    /\ LET r == GroupIter(g_subtitles[g_next], groups, current_group)
       IN  /\ ~r.closed
           /\ groups' = r.groups
           /\ current_group' = r.current_group
    /\ g_next' = g_next + 1
    /\ UNCHANGED <<g_subtitles, gpc, tvars, pvars, rvars, wvars, evars>>

\* one iteration that closes the group
GroupClose ==
    /\ gpc = "loop"
    /\ g_next <= Len(g_subtitles)
    /\ LET r == GroupIter(g_subtitles[g_next], groups, current_group)
       IN  /\ r.closed
           /\ groups' = r.groups
           /\ current_group' = r.current_group
    /\ g_next' = g_next + 1
    /\ UNCHANGED <<g_subtitles, gpc, tvars, pvars, rvars, wvars, evars>>

\* after the loop: the open group, if any, is the final group
GroupReturn ==
    /\ gpc = "loop"
    /\ g_next > Len(g_subtitles)
    /\ groups' = GroupFinish(groups, current_group)
    /\ current_group' = <<>>
    /\ gpc' = "returned"
    /\ UNCHANGED <<g_subtitles, g_next, tvars, pvars, rvars, wvars, evars>>

NextGroup ==
    \/ GroupReturnEmpty
    \/ GroupEnter
    \/ GroupAppend
    \/ GroupClose
    \/ GroupReturn

SpecGroup == InitGroup /\ [][NextGroup]_vars

(***************************************************************************)
(* translate_srt_stream, one step per yield, service call and return       *)
(***************************************************************************)
MaxRunBlocks == 2
MaxPaddedBlocks == 1

\* the blocks of the files translated
RunBlocks ==
    { << <<"1">>, T1, <<"a">>, <<>> >>,
      << <<"2">>, T1, <<"a", ".">>, <<>> >>,
      << <<"1">>, T1, <<"b", ".">>, <<>> >>,
      << <<"3">>, T1, <<"{", "a", "}">>, <<>> >>,
      << <<"2">>, T1, <<PH, "<", ">", PH>>, <<>> >>,
      << <<"0", "2">>, T1, <<"<", "a", ">", "a">>, <<"b", ".">>, <<>> >> }

PaddedBlocks ==
    { << <<"1">>, T1, <<"a">>, <<>> >>,
      << <<"2">>, T1, <<"a", ".">>, <<>> >>,
      << <<"1">>, T1, <<"b", ".">>, <<>> >>,
      << <<"2">>, T1, <<PH, "<", ">", PH>>, <<>> >> }

\* GROUP_BATCH_SIZE blocks numbered 11, 12, ..., each a sentence of its own
Padding ==
    [k \in 1 .. GROUP_BATCH_SIZE |-> << IntToStr(10 + k), T1, <<"a", ".">>, <<>> >>]

\* files of a few blocks, and files of more groups than one batch holds
RunFiles ==
    LET short == SeqsUpTo(RunBlocks, MaxRunBlocks)
        extra == SeqsUpTo(PaddedBlocks, MaxPaddedBlocks) \ {<<>>}
    IN  {Flatten(f) : f \in short}
            \cup {Flatten(Padding \o f) : f \in extra}
            \cup {Flatten(f \o Padding) : f \in extra}

RunParams ==
    { [display_mode |-> "only_translated", font_size |-> 0,
       split_long_lines |-> TRUE, max_line_length |-> 3],
      [display_mode |-> "original_above_translated", font_size |-> 20,
       split_long_lines |-> FALSE, max_line_length |-> 40],
      [display_mode |-> "translated_above_original", font_size |-> 0,
       split_long_lines |-> TRUE, max_line_length |-> 40],
      [display_mode |-> "side_by_side", font_size |-> 0,
       split_long_lines |-> FALSE, max_line_length |-> 40] }

\* the texts the completion service may answer with, as lines
ResponseTexts ==
    { << <<"[", "1", "]", " ", "X">>, <<"[", "2", "]", " ", "Y", " ", "Z", " ", "Z">> >>,
      << <<"[", "1", "]", " ", "X">>, <<>>, <<"[", "1", "]", "Y">> >>,
      << <<"j", "u", "n", "k">>, <<"[", "2", "]", " ">>, <<" ", "[", "9", "]", " ", "Z">>,
         <<"[", "x", "]", " ", "X">> >>,
      EmptyText }

\* the exceptions the completion service may raise: whether str(e) contains
\* "429" and whether it contains "SAFETY"
ServiceErrors == [has429 : BOOLEAN, hasSafety : BOOLEAN]

Init ==
    /\ TemplateIdle
    /\ ParseIdle
    /\ GroupIdle
    /\ WrapIdle
    /\ EndpointIdle
    /\ srt_content \in RunFiles
    /\ params \in RunParams
    /\ model_configured \in BOOLEAN
    /\ original_subtitles = <<>>
    /\ subtitle_groups = <<>>
    /\ batch_i = 0
    /\ batch_of_groups = <<>>
    /\ attempt = 0
    /\ api_calls = 0
    /\ sleeps = <<>>
    /\ call_errors = <<>>
    /\ response_text = <<>>
    /\ translation_map = EmptyDict
    /\ emit_next = 0
    /\ chunks = <<>>
    /\ batch_log = <<>>
    /\ rpc = "start"

\* main.py:394-397: nothing parsed, the error status, return
RunStartEmpty ==
    /\ rpc = "start"
    /\ parse_srt(srt_content) = <<>>
    /\ chunks' = Append(chunks, StatusUnparseable)
    /\ rpc' = "done"
    /\ UNCHANGED <<srt_content, params, model_configured, original_subtitles,
                   subtitle_groups, batch_i, batch_of_groups, attempt, api_calls, sleeps, call_errors,
                   response_text, translation_map, emit_next, batch_log, tvars, pvars, gvars, wvars, evars>>

\* main.py:394-402: parse, group, the start status
RunStart ==
    /\ rpc = "start"
    /\ parse_srt(srt_content) # <<>>
    /\ original_subtitles' = parse_srt(srt_content)
    /\ subtitle_groups' = group_subtitles_by_sentence(original_subtitles')
    /\ chunks' = Append(chunks, StatusStart(Len(subtitle_groups')))
    /\ batch_i' = 0
    /\ rpc' = "batch"
    /\ UNCHANGED <<srt_content, params, model_configured, batch_of_groups, attempt,
                   api_calls, sleeps, call_errors,
                response_text, translation_map, emit_next,
                   batch_log, tvars, pvars, gvars, wvars, evars>>

\* main.py:405-418: the next batch, its status, and the call of
\* translate_batch_of_groups_and_parse up to api_call_with_retry's loop
BatchBegin ==
    /\ rpc = "batch"
    /\ batch_i < Len(subtitle_groups)
    /\ LET batch == BatchSlice(subtitle_groups, batch_i)
           last_group == batch[Len(batch)]
       IN  /\ batch_of_groups' = batch
           /\ chunks' = Append(chunks,
                  StatusBatch(batch_i, Len(subtitle_groups), batch[1][1].index,
                              last_group[Len(last_group)].index))
    /\ attempt' = 0
    /\ api_calls' = 0
    /\ sleeps' = <<>>
    /\ call_errors' = <<>>
    /\ response_text' = <<>>
    /\ rpc' = "api"
    /\ UNCHANGED <<srt_content, params, model_configured, original_subtitles,
                   subtitle_groups, batch_i, translation_map, emit_next, batch_log,
                   tvars, pvars, gvars, wvars, evars>>

\* main.py:455: the batch loop is over, the completion status
RunComplete ==
    /\ rpc = "batch"
    /\ batch_i >= Len(subtitle_groups)
    /\ chunks' = Append(chunks, StatusComplete)
    /\ rpc' = "done"
    /\ UNCHANGED <<srt_content, params, model_configured, original_subtitles,
                   subtitle_groups, batch_i, batch_of_groups, attempt, api_calls, sleeps, call_errors,
                   response_text, translation_map, emit_next, batch_log, tvars, pvars, gvars, wvars, evars>>

api_unchanged ==
    UNCHANGED <<srt_content, params, model_configured, original_subtitles, subtitle_groups,
                batch_i, batch_of_groups, translation_map, emit_next, chunks, batch_log,
                tvars, pvars, gvars, wvars, evars>>

\* main.py:287-288: no model
ApiNotConfigured ==
    /\ rpc = "api"
    /\ ~model_configured
    /\ response_text' = API_CONFIGURATION_ERROR
    /\ rpc' = "parse"
    /\ UNCHANGED <<attempt, api_calls, sleeps, call_errors>>
    /\ api_unchanged

\* main.py:294-306: the call returns a response
ApiResponse ==
    /\ rpc = "api"
    /\ model_configured
    /\ attempt < MAX_RETRIES
    /\ \E text \in ResponseTexts :
          response_text' = IF text = EmptyText THEN EMPTY_RESPONSE ELSE StripSplit(text)
    /\ api_calls' = api_calls + 1
    /\ rpc' = "parse"
    /\ UNCHANGED <<attempt, sleeps, call_errors>>
    /\ api_unchanged

\* main.py:310-313: "429" in the message and not the last attempt
ApiRateLimited ==
    /\ rpc = "api"
    /\ model_configured
    /\ attempt < MAX_RETRIES
    /\ \E e \in ServiceErrors :
          /\ e.has429
          /\ attempt < MAX_RETRIES - 1
          /\ call_errors' = Append(call_errors, e)
    /\ api_calls' = api_calls + 1
    /\ sleeps' = Append(sleeps, RateLimitDelay(attempt))
    /\ attempt' = NextAttempt(attempt)
    /\ UNCHANGED <<response_text, rpc>>
    /\ api_unchanged

\* main.py:314-316: otherwise "SAFETY" in the message
ApiSafetyBlock ==
    /\ rpc = "api"
    /\ model_configured
    /\ attempt < MAX_RETRIES
    /\ \E e \in ServiceErrors :
          /\ ~(e.has429 /\ attempt < MAX_RETRIES - 1)
          /\ e.hasSafety
          /\ call_errors' = Append(call_errors, e)
    /\ api_calls' = api_calls + 1
    /\ response_text' = SAFETY_BLOCK
    /\ rpc' = "parse"
    /\ UNCHANGED <<attempt, sleeps>>
    /\ api_unchanged

\* main.py:317-321: any other failure before the last attempt
ApiErrorRetry ==
    /\ rpc = "api"
    /\ model_configured
    /\ attempt < MAX_RETRIES - 1
    /\ \E e \in ServiceErrors :
          /\ ~e.has429
          /\ ~e.hasSafety
          /\ call_errors' = Append(call_errors, e)
    /\ api_calls' = api_calls + 1
    /\ sleeps' = Append(sleeps, FIXED_RETRY_DELAY)
    /\ attempt' = NextAttempt(attempt)
    /\ UNCHANGED <<response_text, rpc>>
    /\ api_unchanged

\* main.py:317-320: any other failure on the last attempt
ApiErrorFinal ==
    /\ rpc = "api"
    /\ model_configured
    /\ attempt = MAX_RETRIES - 1
    /\ \E e \in ServiceErrors :
          /\ ~(e.has429 /\ attempt < MAX_RETRIES - 1)
          /\ ~e.hasSafety
          /\ call_errors' = Append(call_errors, e)
    /\ api_calls' = api_calls + 1
    /\ response_text' = API_CALL_FAILED
    /\ rpc' = "parse"
    /\ UNCHANGED <<attempt, sleeps>>
    /\ api_unchanged

batch_unchanged ==
    UNCHANGED <<srt_content, params, model_configured, original_subtitles, subtitle_groups,
                batch_i, batch_of_groups, response_text, chunks, tvars, pvars, gvars, wvars, evars>>

\* main.py:352-354: a failure value, the map of original texts is returned;
\* what api_call_with_retry counted is gone with its frame
BatchFallback ==
    /\ rpc = "parse"
    /\ response_text \in FailureValues
    /\ translation_map' = BatchResult(batch_of_groups, response_text)
    /\ batch_log' = Append(batch_log, [first |-> batch_i, response_text |-> response_text])
    /\ attempt' = 0
    /\ api_calls' = 0
    /\ sleeps' = <<>>
    /\ call_errors' = <<>>
    /\ emit_next' = 1
    /\ rpc' = "emit"
    /\ batch_unchanged

\* main.py:356-379: the response is parsed and missing indices are filled
BatchParse ==
    /\ rpc = "parse"
    /\ response_text \notin FailureValues
    /\ translation_map' = BatchResult(batch_of_groups, response_text)
    /\ batch_log' = Append(batch_log, [first |-> batch_i, response_text |-> response_text])
    /\ attempt' = 0
    /\ api_calls' = 0
    /\ sleeps' = <<>>
    /\ call_errors' = <<>>
    /\ emit_next' = 1
    /\ rpc' = "emit"
    /\ batch_unchanged

NextChunk ==
    OutputChunk(Flatten(batch_of_groups)[emit_next], translation_map, params.display_mode,
                params.font_size, params.split_long_lines, params.max_line_length)

\* main.py:421-453: the chunk of the next entry of the batch is yielded;
\* after the last one the batch loop goes on
EmitBlock ==
    /\ rpc = "emit"
    /\ NextChunk.ok
    /\ chunks' = Append(chunks, NextChunk.chunk)
    /\ IF emit_next < Len(Flatten(batch_of_groups))
       THEN /\ emit_next' = emit_next + 1
            /\ UNCHANGED <<batch_i, rpc>>
       ELSE /\ emit_next' = 0
            /\ batch_i' = NextBatchStart(batch_i)
            /\ rpc' = "batch"
    /\ UNCHANGED <<srt_content, params, model_configured, original_subtitles,
                   subtitle_groups, batch_of_groups, attempt, api_calls, sleeps, call_errors,
                   response_text, translation_map, batch_log, tvars, pvars, gvars, wvars, evars>>

\* main.py:431/441: str.format raises while the next chunk is built
EmitRaise ==
    /\ rpc = "emit"
    /\ ~NextChunk.ok
    /\ rpc' = "except"
    /\ UNCHANGED <<srt_content, params, model_configured, original_subtitles,
                   subtitle_groups, batch_i, batch_of_groups, attempt, api_calls, sleeps, call_errors,
                   response_text, translation_map, emit_next, chunks, batch_log,
                   tvars, pvars, gvars, wvars, evars>>

\* main.py:457-459: the failure status, and the generator ends
RunExcept ==
    /\ rpc = "except"
    /\ chunks' = Append(chunks, StatusFailed)
    /\ rpc' = "done"
    /\ UNCHANGED <<srt_content, params, model_configured, original_subtitles,
                   subtitle_groups, batch_i, batch_of_groups, attempt, api_calls, sleeps, call_errors,
                   response_text, translation_map, emit_next, batch_log, tvars, pvars, gvars, wvars, evars>>

Next ==
    \/ RunStartEmpty
    \/ RunStart
    \/ BatchBegin
    \/ RunComplete
    \/ ApiNotConfigured
    \/ ApiResponse
    \/ ApiRateLimited
    \/ ApiSafetyBlock
    \/ ApiErrorRetry
    \/ ApiErrorFinal
    \/ BatchFallback
    \/ BatchParse
    \/ EmitBlock
    \/ EmitRaise
    \/ RunExcept

Spec == Init /\ [][Next]_vars

(***************************************************************************)
(* api_call_with_retry, one call                                           *)
(***************************************************************************)
\* the batches the prompt of the call is built from
CallBatches ==
    { group_subtitles_by_sentence(parse_srt(Flatten(f))) :
        f \in SeqsUpTo(PaddedBlocks, 1) \ {<<>>} }

\* translate_batch_of_groups_and_parse has built the prompt of a batch and
\* calls api_call_with_retry
InitCall ==
    /\ TemplateIdle
    /\ ParseIdle
    /\ GroupIdle
    /\ WrapIdle
    /\ EndpointIdle
    /\ srt_content = <<>>
    /\ params = NoParams
    /\ model_configured \in BOOLEAN
    /\ original_subtitles = <<>>
    /\ subtitle_groups = <<>>
    /\ batch_i = 0
    /\ batch_of_groups \in CallBatches
    /\ attempt = 0
    /\ api_calls = 0
    /\ sleeps = <<>>
    /\ call_errors = <<>>
    /\ response_text = <<>>
    /\ translation_map = EmptyDict
    /\ emit_next = 0
    /\ chunks = <<>>
    /\ batch_log = <<>>
    /\ rpc = "api"

NextCall ==
    \/ ApiNotConfigured
    \/ ApiResponse
    \/ ApiRateLimited
    \/ ApiSafetyBlock
    \/ ApiErrorRetry
    \/ ApiErrorFinal

SpecCall == InitCall /\ [][NextCall]_vars

\* the event loop goes on running the coroutine: an awaited service call
\* returns or raises, and an awaited sleep ends
FairSpecCall == SpecCall /\ WF_vars(NextCall)

(***************************************************************************)
(* split_long_line, one call                                               *)
(***************************************************************************)
MaxTextLen == 5
MaxWidth == 3

WrapChars == {"a", "b", " "}

InitWrap ==
    /\ TemplateIdle
    /\ ParseIdle
    /\ GroupIdle
    /\ RunIdle
    /\ EndpointIdle
    /\ w_text \in StringsUpTo(WrapChars, MaxTextLen)
    /\ w_max_length \in 1 .. MaxWidth
    /\ w_lines = <<>>
    /\ wpc = "call"

\* main.py:263-264: the text fits, it is returned as the only line
WrapReturnWhole ==
    /\ wpc = "call"
    /\ Len(w_text) <= w_max_length
    /\ w_lines' = split_long_line(w_text, w_max_length)
    /\ wpc' = "returned"
    /\ UNCHANGED <<w_text, w_max_length, tvars, pvars, gvars, rvars, evars>>

\* main.py:266-283: the text is split into words and the words are packed
WrapReturnLines ==
    /\ wpc = "call"
    /\ Len(w_text) > w_max_length
    /\ w_lines' = split_long_line(w_text, w_max_length)
    /\ wpc' = "returned"
    /\ UNCHANGED <<w_text, w_max_length, tvars, pvars, gvars, rvars, evars>>

NextWrap == WrapReturnWhole \/ WrapReturnLines

SpecWrap == InitWrap /\ [][NextWrap]_vars

(***************************************************************************)
(* translate_endpoint and translate_stream_endpoint, one request           *)
(***************************************************************************)
\* main.py:49-60: the keys of SUPPORTED_LANGUAGES
SUPPORTED_LANGUAGES ==
    {"Chinese", "English", "Japanese", "Korean", "French", "German", "Spanish",
     "Italian", "Russian", "Arabic"}

\* main.py:63-67: the keys of QUALITY_MODES (fast, standard and high quality,
\* written in Chinese in the source)
QUALITY_MODES == {"fast", "standard", "high_quality"}

\* the byte order mark, and a byte that is not UTF-8
BOM == "BOM"
BadByte == "0xFF"

\* contents.decode("utf-8-sig"): raises UnicodeDecodeError on a byte that is
\* not UTF-8, and drops one leading byte order mark
DecodeUtf8Sig(contents) ==
    [ok   |-> \A k \in 1 .. Len(contents) :
                \A j \in 1 .. Len(contents[k]) : contents[k][j] # BadByte,
     text |-> IF contents # <<>> /\ contents[1] # <<>> /\ contents[1][1] = BOM
              THEN <<Tail(contents[1])>> \o Tail(contents)
              ELSE contents]

\* the uploaded files: plain, with a byte order mark, and one that is not UTF-8
EndpointContents ==
    LET plain == {Flatten(f) : f \in SeqsUpTo(PaddedBlocks, MaxPaddedBlocks)}
    IN  plain
            \cup {<<<<BOM>> \o f[1]>> \o Tail(f) : f \in plain \ {<<>>}}
            \cup {<< <<"1">>, T1, <<"a", BadByte>>, <<>> >>}

\* the requests sent
Requests ==
    [path            : {"/translate", "/translate-stream"},
     target_language : {"Chinese", "Japanese", "Klingon"},
     quality_mode    : {"standard", "turbo"},
     contents        : EndpointContents,
     params          : RunParams]

\* main.py:530-531: the chunks that are not status lines, concatenated
RECURSIVE FullTranslation(_)
FullTranslation(cs) ==
    IF cs = <<>> THEN <<>>
    ELSE (IF IsStatus(Head(cs)) THEN <<>> ELSE Head(cs)) \o FullTranslation(Tail(cs))

\* a request has arrived at one of the two endpoints
InitEndpoint ==
    /\ TemplateIdle
    /\ ParseIdle
    /\ GroupIdle
    /\ WrapIdle
    /\ srt_content = <<>>
    /\ params = NoParams
    /\ model_configured \in BOOLEAN
    /\ original_subtitles = <<>>
    /\ subtitle_groups = <<>>
    /\ batch_i = 0
    /\ batch_of_groups = <<>>
    /\ attempt = 0
    /\ api_calls = 0
    /\ sleeps = <<>>
    /\ call_errors = <<>>
    /\ response_text = <<>>
    /\ translation_map = EmptyDict
    /\ emit_next = 0
    /\ chunks = <<>>
    /\ batch_log = <<>>
    /\ rpc = "idle"
    /\ request \in Requests
    /\ http_status = 0
    /\ translated_srt = <<>>
    /\ raised = ""
    /\ epc = "read"

\* main.py:515-516, 557-558: the file is read and decoded
EndpointDecode ==
    /\ epc = "read"
    /\ DecodeUtf8Sig(request.contents).ok
    /\ srt_content' = DecodeUtf8Sig(request.contents).text
    /\ epc' = "validate"
    /\ UNCHANGED <<params, model_configured, original_subtitles, subtitle_groups,
                   batch_i, batch_of_groups, attempt, api_calls, sleeps, call_errors,
                   response_text, translation_map, emit_next, chunks, batch_log, rpc,
                   request, http_status, translated_srt, raised,
                   tvars, pvars, gvars, wvars>>

\* main.py:516, 558: decode raises inside the try
EndpointDecodeRaise ==
    /\ epc = "read"
    /\ ~DecodeUtf8Sig(request.contents).ok
    /\ raised' = "UnicodeDecodeError"
    /\ epc' = "except"
    /\ UNCHANGED <<request, http_status, translated_srt, tvars, pvars, gvars, rvars, wvars>>

\* main.py:519-520, 561-562: HTTPException(status_code=400) is raised inside
\* the try
EndpointRejectLanguage ==
    /\ epc = "validate"
    /\ request.target_language \notin SUPPORTED_LANGUAGES
    /\ raised' = "HTTPException(400)"
    /\ epc' = "except"
    /\ UNCHANGED <<request, http_status, translated_srt, tvars, pvars, gvars, rvars, wvars>>

\* main.py:522-523, 564-565: HTTPException(status_code=400) is raised inside
\* the try
EndpointRejectQuality ==
    /\ epc = "validate"
    /\ request.target_language \in SUPPORTED_LANGUAGES
    /\ request.quality_mode \notin QUALITY_MODES
    /\ raised' = "HTTPException(400)"
    /\ epc' = "except"
    /\ UNCHANGED <<request, http_status, translated_srt, tvars, pvars, gvars, rvars, wvars>>

\* main.py:541-543, 575-577: except Exception catches whatever was raised
\* inside the try, HTTPException included, and raises
\* HTTPException(status_code=500), which becomes the response
EndpointExcept ==
    /\ epc = "except"
    /\ http_status' = 500
    /\ epc' = "responded"
    /\ UNCHANGED <<request, translated_srt, raised, tvars, pvars, gvars, rvars, wvars>>

\* main.py:525-529: /translate starts iterating translate_srt_stream
EndpointTranslate ==
    /\ epc = "validate"
    /\ request.path = "/translate"
    /\ request.target_language \in SUPPORTED_LANGUAGES
    /\ request.quality_mode \in QUALITY_MODES
    /\ params' = request.params
    /\ rpc' = "start"
    /\ epc' = "collect"
    /\ UNCHANGED <<srt_content, model_configured, original_subtitles, subtitle_groups,
                   batch_i, batch_of_groups, attempt, api_calls, sleeps, call_errors,
                   response_text, translation_map, emit_next, chunks, batch_log,
                   request, http_status, translated_srt, raised,
                   tvars, pvars, gvars, wvars>>

\* main.py:530-539: the generator is exhausted, the JSON response is returned
EndpointRespond ==
    /\ epc = "collect"
    /\ rpc = "done"
    /\ translated_srt' = FullTranslation(chunks)
    /\ http_status' = 200
    /\ epc' = "responded"
    /\ UNCHANGED <<request, raised, tvars, pvars, gvars, rvars, wvars>>

\* main.py:567-573: /translate-stream returns the StreamingResponse, whose body
\* is what translate_srt_stream yields
EndpointStream ==
    /\ epc = "validate"
    /\ request.path = "/translate-stream"
    /\ request.target_language \in SUPPORTED_LANGUAGES
    /\ request.quality_mode \in QUALITY_MODES
    /\ params' = request.params
    /\ rpc' = "start"
    /\ http_status' = 200
    /\ epc' = "streaming"
    /\ UNCHANGED <<srt_content, model_configured, original_subtitles, subtitle_groups,
                   batch_i, batch_of_groups, attempt, api_calls, sleeps, call_errors,
                   response_text, translation_map, emit_next, chunks, batch_log,
                   request, translated_srt, raised,
                   tvars, pvars, gvars, wvars>>

\* main.py:567-573: the generator is exhausted, the streamed body ends
EndpointStreamEnd ==
    /\ epc = "streaming"
    /\ rpc = "done"
    /\ epc' = "responded"
    /\ UNCHANGED <<request, http_status, translated_srt, raised,
                   tvars, pvars, gvars, rvars, wvars>>

NextEndpoint ==
    \/ EndpointDecode
    \/ EndpointDecodeRaise
    \/ EndpointRejectLanguage
    \/ EndpointRejectQuality
    \/ EndpointExcept
    \/ EndpointTranslate
    \/ EndpointRespond
    \/ EndpointStream
    \/ EndpointStreamEnd
    \/ RunStartEmpty
    \/ RunStart
    \/ BatchBegin
    \/ RunComplete
    \/ ApiNotConfigured
    \/ ApiResponse
    \/ ApiRateLimited
    \/ ApiSafetyBlock
    \/ ApiErrorRetry
    \/ ApiErrorFinal
    \/ BatchFallback
    \/ BatchParse
    \/ EmitBlock
    \/ EmitRaise
    \/ RunExcept

SpecEndpoint == InitEndpoint /\ [][NextEndpoint]_vars

(***************************************************************************)
(* Claims about the Tag-Template Extractor (SpecTemplate)                  *)
(***************************************************************************)

\* C3: round-trip law.  For every raw line, formatting the template returned
\* by create_template_and_clean_text with the clean text returned with it
\* succeeds and reproduces the line exactly.
C3_RoundTrip ==
    tpc = "done" => (restored.ok /\ restored.text = original_line)

\* C4: rehydration placement.  For every line with non-empty clean text and
\* every replacement s, formatting the template with s succeeds and yields the
\* line with s in place of an occurrence of the clean text that lies outside
\* every tag, everything else unchanged.
C4_RehydrationPlacement ==
    (tpc = "done" /\ extracted.clean # <<>>) =>
        /\ rehydrated.ok
        /\ \E p \in 1 .. Len(original_line) :
              LET q == p + Len(extracted.clean)
              IN  /\ q - 1 <= Len(original_line)
                  /\ SubSeq(original_line, p, q - 1) = extracted.clean
                  /\ (p .. q - 1) \cap TagPositions(original_line, 1) = {}
                  /\ rehydrated.text =
                        SubSeq(original_line, 1, p - 1) \o replacement
                            \o SubSeq(original_line, q, Len(original_line))

(***************************************************************************)
(* Claims about parse_srt (SpecParse)                                      *)
(***************************************************************************)
IsIndexLine(line) == IsDigit(Strip(line)) /\ ~IntRaises(Strip(line))
HasArrow(line) == Find(line, Arrow) # 0

\* index line, time-range line, one or more text lines, blank line
WellFormedBlock(b) ==
    /\ Len(b) >= 4
    /\ IsIndexLine(b[1])
    /\ HasArrow(b[2])
    /\ \A k \in 3 .. Len(b) - 1 : ~IsBlank(b[k])
    /\ IsBlank(b[Len(b)])

\* an index line not followed by a time-range line: alone, or followed by
\* lines of which the first has no "-->" and ended by a blank line
MissingRangeBlock(b) ==
    /\ Len(b) >= 1
    /\ IsIndexLine(b[1])
    /\ Len(b) >= 2 => ( /\ ~HasArrow(b[2])
                        /\ \A k \in 2 .. Len(b) - 1 : ~IsBlank(b[k])
                        /\ IsBlank(b[Len(b)]) )

\* what a well-formed block says: its index, its time line, the clean text
\* of each of its text lines
BlockView(b) ==
    [index |-> ToInt(Strip(b[1])), time |-> b[2],
     cleans |-> [k \in 1 .. Len(b) - 3 |-> strip_tags(b[k + 2])]]

EntryView(sub) ==
    [index |-> sub.index, time |-> sub.time,
     cleans |-> [k \in 1 .. Len(sub.lines) |-> sub.lines[k].clean]]

RECURSIVE IsSubseq(_, _)
IsSubseq(a, b) ==
    IF a = <<>> THEN TRUE
    ELSE IF b = <<>> THEN FALSE
    ELSE IF Head(a) = Head(b) THEN IsSubseq(Tail(a), Tail(b))
    ELSE IsSubseq(a, Tail(b))

WellFormedViews(blocks) ==
    LET wf == SelectSeq(blocks, WellFormedBlock)
    IN  [k \in 1 .. Len(wf) |-> BlockView(wf[k])]

OnlyMissingRangeDefects ==
    \A k \in 1 .. Len(srt_blocks) :
        WellFormedBlock(srt_blocks[k]) \/ MissingRangeBlock(srt_blocks[k])

\* C5: malformed-block resilience.  On every input the loop of parse_srt
\* advances by at least one line per iteration, so it ends within len(lines)
\* iterations, and no path raises; and when every defective block of the file
\* is one whose index line is not followed by a time-range line, the entries
\* returned contain, in file order, every well-formed block with its own
\* index, time line and text.
C5_MalformedBlockResilience ==
    /\ p_iterations <= p_i
    /\ p_iterations <= Len(p_lines)
    /\ (ppc = "returned" /\ OnlyMissingRangeDefects) =>
          IsSubseq(WellFormedViews(srt_blocks),
                   [k \in 1 .. Len(p_subtitles) |-> EntryView(p_subtitles[k])])

\* a file whose block 2 omits the time-range line, between two well-formed
\* blocks, has been parsed
C5_Witness ==
    /\ ppc = "returned"
    /\ Len(srt_blocks) = 3
    /\ WellFormedBlock(srt_blocks[1])
    /\ MissingRangeBlock(srt_blocks[2])
    /\ WellFormedBlock(srt_blocks[3])
    /\ Len(p_subtitles) = 2

\* C6: every entry parse_srt returns has at least one line whose clean text
\* is non-empty (blocks with only markup are dropped).
C6_NoTagOnlyEntries ==
    \A k \in 1 .. Len(p_subtitles) :
        \E j \in 1 .. Len(p_subtitles[k].lines) : p_subtitles[k].lines[j].clean # <<>>

(***************************************************************************)
(* Claims about group_subtitles_by_sentence (SpecGroup)                    *)
(***************************************************************************)

\* C7: the groups returned partition the input: concatenated in order they
\* are exactly the input entry sequence, and no group is empty.
C7_GroupsPartition ==
    gpc = "returned" =>
        /\ Flatten(groups) = g_subtitles
        /\ \A k \in 1 .. Len(groups) : groups[k] # <<>>

\* a call has returned several groups, one of several entries, the last one
\* left open by the input
C7_Witness ==
    /\ gpc = "returned"
    /\ Len(groups) >= 2
    /\ \E k \in 1 .. Len(groups) : Len(groups[k]) >= 2
    /\ ~ClosesGroup(g_subtitles[Len(g_subtitles)], groups[Len(groups)])

(***************************************************************************)
(* Claims about translate_srt_stream and                                   *)
(* translate_batch_of_groups_and_parse (Spec)                              *)
(***************************************************************************)
\* the entries of the batch in hand, in order
BatchEntries == Flatten(batch_of_groups)

\* what the response in hand gives before missing indices are filled
ParsedResponse == ParseResponseLines(response_text, EmptyDict)

\* the chunks that are not status messages
OutputBlocks == SelectSeq(chunks, LAMBDA c : ~IsStatus(c))

\* the combined clean-text character count of some entries
RECURSIVE CleanChars(_)
CleanChars(entries) ==
    IF entries = <<>> THEN 0
    ELSE Len(JoinedClean(Head(entries))) + CleanChars(Tail(entries))

\* C1: once the completion service has ended in failure for a batch, the
\* map translate_batch_of_groups_and_parse returns gives every entry of the
\* batch its own original clean text (the space-joined clean text of its
\* lines).
C1_FallbackOwnText ==
    (rpc = "emit" /\ response_text \in FailureValues) =>
        \A k \in 1 .. Len(BatchEntries) :
            /\ BatchEntries[k].index \in DOMAIN translation_map
            /\ translation_map[BatchEntries[k].index] = JoinedClean(BatchEntries[k])

\* C2: whatever the completion service answered (indices left out, indices
\* repeated, malformed lines, or a failure), the map returned for a batch
\* has a value for the index of every entry of the batch.
C2_Coverage ==
    rpc = "emit" =>
        \A k \in 1 .. Len(BatchEntries) : BatchEntries[k].index \in DOMAIN translation_map

\* a response with a line that is not an indexed line has been parsed, it
\* left out the index of an entry of the batch, and that entry has its
\* original clean text in the map
C2_Witness ==
    /\ rpc = "emit"
    /\ response_text \notin FailureValues
    /\ \E j \in 1 .. Len(response_text) :
          response_text[j] # <<>> /\ ~MatchIndexedLine(Strip(response_text[j])).matched
    /\ \E k \in 1 .. Len(BatchEntries) :
          /\ BatchEntries[k].index \notin DOMAIN ParsedResponse
          /\ translation_map[BatchEntries[k].index] = JoinedClean(BatchEntries[k])

C9_FailureIsolation ==
    /\ ( /\ rpc = "emit"
         /\ response_text \notin FailureValues
         /\ \E j \in 1 .. Len(batch_log) :
               batch_log[j].first # batch_i /\ batch_log[j].response_text \in FailureValues )
       => \A k \in 1 .. Len(BatchEntries) :
             BatchEntries[k].index \in DOMAIN ParsedResponse =>
                translation_map[BatchEntries[k].index] = ParsedResponse[BatchEntries[k].index]
    /\ ( /\ rpc = "done"
         /\ \E j \in 1 .. Len(batch_log) : batch_log[j].response_text \in FailureValues )
       => /\ chunks[Len(chunks)] = StatusComplete
          /\ Len(OutputBlocks) = Len(original_subtitles)

\* C10: every chunk that is not a status message is one complete SRT block
\* of the parsed entry at its position: the index line, the time-range
\* line, the text and a trailing blank line; and a finished run has emitted
\* one such chunk for every parsed entry.
C10_CompleteBlockPerEntry ==
    /\ Len(OutputBlocks) <= Len(original_subtitles)
    /\ \A k \in 1 .. Len(OutputBlocks) :
          LET sub == original_subtitles[k]
              header == IntToStr(sub.index) \o <<NL>> \o sub.time \o <<NL>>
              block == OutputBlocks[k]
          IN  /\ Len(block) >= Len(header) + 2
              /\ SubSeq(block, 1, Len(header)) = header
              /\ SubSeq(block, Len(block) - 1, Len(block)) = <<NL, NL>>
    /\ rpc = "done" => Len(OutputBlocks) = Len(original_subtitles)

\* the first line of an output block
IndexLine(block) ==
    LET nl == IndexOfFrom(block, NL, 1)
    IN  IF nl = 0 THEN block ELSE SubSeq(block, 1, nl - 1)

\* C11: the indices of the emitted SRT blocks, in emission order, are the
\* indices of the parsed entries in original order: never out of order,
\* and all of them once the run has ended, whatever the batch calls gave.
C11_OutputOrder ==
    /\ Len(OutputBlocks) <= Len(original_subtitles)
    /\ \A k \in 1 .. Len(OutputBlocks) :
          IndexLine(OutputBlocks[k]) = IntToStr(original_subtitles[k].index)
    /\ rpc = "done" =>
          [k \in 1 .. Len(OutputBlocks) |-> IndexLine(OutputBlocks[k])]
             = [k \in 1 .. Len(original_subtitles) |-> IntToStr(original_subtitles[k].index)]

\* C12: an exception whose message holds "SAFETY" is the last call made for
\* the batch, and the call returns the safety-block value, whatever else
\* the message holds and on whichever attempt it is raised.
C12_SafetyNeverRetried ==
    \A j \in 1 .. Len(call_errors) :
        call_errors[j].hasSafety =>
            /\ j = api_calls
            /\ rpc = "parse"
            /\ response_text = SAFETY_BLOCK

\* C13: api_call_with_retry makes at most MAX_RETRIES calls for one batch,
\* every call in progress comes to its return, and what it returns is a
\* failure value or the stripped text of a response.
C13_BoundedRetries ==
    /\ [](api_calls <= MAX_RETRIES)
    /\ [](rpc = "parse" =>
            \/ response_text \in FailureValues
            \/ \E text \in ResponseTexts : response_text = StripSplit(text))
    /\ ((rpc = "api") ~> (rpc = "parse"))

\* the call has returned after MAX_RETRIES calls, two of them retried
C13_Witness ==
    /\ rpc = "parse"
    /\ api_calls = MAX_RETRIES
    /\ Len(sleeps) = MAX_RETRIES - 1

(***************************************************************************)
(* Claims about group_subtitles_by_sentence, continued (SpecGroup)         *)
(***************************************************************************)

\* C14: grouping is idempotent: grouping the flattened result of a call
\* again yields the same sequence of groups.
C14_GroupingIdempotent ==
    gpc = "returned" => group_subtitles_by_sentence(Flatten(groups)) = groups

\* a call has returned three or more groups, of different sizes
C14_Witness ==
    /\ gpc = "returned"
    /\ Len(groups) >= 3
    /\ \E j, k \in 1 .. Len(groups) : Len(groups[j]) # Len(groups[k])
    /\ group_subtitles_by_sentence(Flatten(groups)) = groups

\* the text of an entry ends a sentence or is upper-case
TextCloses(sub) ==
    LET text == Strip(JoinedClean(sub))
    IN  \/ \E suf \in sentence_enders :
              Len(suf) <= Len(text) /\ SubSeq(text, Len(text) - Len(suf) + 1, Len(text)) = suf
        \/ (text # <<>> /\ IsUpper(text))

\* C15: a group is closed exactly at the first entry whose joined clean
\* text ends with a sentence-ending mark or is non-empty and upper-case, or
\* that brings the group to 5 entries: no group has more than 5 entries, no
\* entry but the last of a group has such a text, and only the final group
\* may end with an entry that has no such text while being shorter than 5.
C15_GroupClosingRule ==
    gpc = "returned" =>
        \A g \in 1 .. Len(groups) :
            /\ Len(groups[g]) >= 1
            /\ Len(groups[g]) <= 5
            /\ \A k \in 1 .. Len(groups[g]) - 1 : ~TextCloses(groups[g][k])
            /\ g < Len(groups) =>
                  \/ TextCloses(groups[g][Len(groups[g])])
                  \/ Len(groups[g]) = 5

\* a call has returned a group closed by its size alone, followed by a
\* final group left open by the input
C15_Witness ==
    /\ gpc = "returned"
    /\ Len(groups) >= 2
    /\ \E g \in 1 .. Len(groups) - 1 :
          Len(groups[g]) = 5 /\ ~TextCloses(groups[g][5])
    /\ ~TextCloses(groups[Len(groups)][Len(groups[Len(groups)])])
    /\ Len(groups[Len(groups)]) < 5

(***************************************************************************)
(* Claims about api_call_with_retry and the fallback (Spec)                *)
(***************************************************************************)

\* C16: every failed call that is followed by another call is followed by
\* one wait: RATE_LIMIT_DELAY * 2^k seconds when the failure of attempt k
\* (0-based) is a rate-limit failure, FIXED_RETRY_DELAY seconds otherwise;
\* a call that returns, on the final attempt or before, adds no wait.
C16_BackoffSchedule ==
    /\ rpc = "api" => (Len(sleeps) = api_calls /\ Len(call_errors) = api_calls)
    /\ (rpc = "parse" /\ api_calls > 0) => Len(sleeps) = api_calls - 1
    /\ \A j \in 1 .. Len(sleeps) :
          sleeps[j] = IF call_errors[j].has429
                      THEN RATE_LIMIT_DELAY * (2 ^ (j - 1))
                      ELSE FIXED_RETRY_DELAY
    /\ (rpc = "parse" /\ api_calls = MAX_RETRIES /\ Len(call_errors) = MAX_RETRIES) =>
          response_text \in {API_CALL_FAILED, SAFETY_BLOCK}

\* two rate-limit failures were waited on for 5 and 10 seconds and the
\* final attempt failed as well
C16_Witness ==
    /\ rpc = "parse"
    /\ sleeps = <<RATE_LIMIT_DELAY, 2 * RATE_LIMIT_DELAY>>
    /\ Len(call_errors) = MAX_RETRIES
    /\ call_errors[MAX_RETRIES].has429
    /\ response_text = API_CALL_FAILED

\* C17: with no model configured, translating a batch makes no call and
\* no wait, and the map returned gives every entry of the batch its own
\* original clean text.
C17_NoModelFallback ==
    ~model_configured =>
        /\ api_calls = 0
        /\ sleeps = <<>>
        /\ rpc = "parse" => response_text = API_CONFIGURATION_ERROR
        /\ rpc = "emit" =>
              \A k \in 1 .. Len(BatchEntries) :
                  DictGet(translation_map, BatchEntries[k].index, <<NL>>)
                      = JoinedClean(BatchEntries[k])

\* the response lines that give index a value: indexed lines with a
\* non-empty text
Contributing(index) ==
    { j \in 1 .. Len(response_text) :
        LET m == MatchIndexedLine(Strip(response_text[j]))
        IN  m.matched /\ m.index = index /\ m.translation # <<>> }

\* the largest number of a non-empty set of numbers
MaxOf(S) == CHOOSE x \in S : \A y \in S : y <= x

\* C18: after a successful call only lines "[index] text" with a non-empty
\* text give a value to the map: an entry with such a line has the text of
\* the last one, and an entry with none (no line, or only lines with an
\* empty text) has its own original clean text, not an empty string.
C18_ResponseParsing ==
    (rpc = "emit" /\ response_text \notin FailureValues) =>
        /\ \A k \in 1 .. Len(BatchEntries) :
              LET index == BatchEntries[k].index
              IN  /\ index \in DOMAIN translation_map
                  /\ translation_map[index] =
                        IF Contributing(index) = {}
                        THEN JoinedClean(BatchEntries[k])
                        ELSE MatchIndexedLine(
                                Strip(response_text[MaxOf(Contributing(index))])).translation
        /\ \A index \in DOMAIN translation_map :
              \/ Contributing(index) # {}
              \/ \E k \in 1 .. Len(BatchEntries) : BatchEntries[k].index = index

\* the number of entries of some groups
RECURSIVE CountEntries(_)
CountEntries(some_groups) ==
    IF some_groups = <<>> THEN 0
    ELSE Len(Head(some_groups)) + CountEntries(Tail(some_groups))

\* the number of batches of the run
TotalBatches == (Len(subtitle_groups) + GROUP_BATCH_SIZE - 1) \div GROUP_BATCH_SIZE

C20_WholeFileFailure ==
    /\ (rpc # "start" /\ original_subtitles = <<>>) =>
          /\ rpc = "done"
          /\ chunks = <<StatusUnparseable>>
          /\ api_calls = 0
          /\ batch_log = <<>>
    /\ original_subtitles # <<>> =>
          \A k \in 1 .. Len(chunks) : chunks[k] \notin {StatusUnparseable, StatusFailed}

(***************************************************************************)
(* Claims about split_long_line (SpecWrap)                                 *)
(***************************************************************************)
\* the characters of a text that are not whitespace, in order
NonWhitespace(text) == SelectSeq(text, LAMBDA c : c \notin Whitespace)

\* C21: every line split_long_line returns has at most max_length
\* characters, and the lines in order hold all the non-whitespace
\* characters of the text in their original order.
C21_LineWrapBound ==
    wpc = "returned" =>
        /\ \A k \in 1 .. Len(w_lines) : Len(w_lines[k]) <= w_max_length
        /\ NonWhitespace(Flatten(w_lines)) = NonWhitespace(w_text)

\* a request both endpoints accept
ValidRequest(r) ==
    r.target_language \in SUPPORTED_LANGUAGES /\ r.quality_mode \in QUALITY_MODES

\* C22: a /translate or /translate-stream request (its file being decodable) whose target_language or quality_mode is not supported is answered with HTTP status 400, and nothing is parsed, no completion-service call is made and no output block is produced for it.
C22_InvalidRequestRejected ==
    (epc = "responded" /\ ~ValidRequest(request) /\ DecodeUtf8Sig(request.contents).ok) =>
        /\ http_status = 400
        /\ original_subtitles = <<>>
        /\ api_calls = 0
        /\ chunks = <<>>

====
